---- MODULE Spec2Model ----
(***************************************************************************)
(* TECANWellAnalyzer.py: growth-curve analysis of a TECAN plate.           *)
(*                                                                         *)
(* Numbers.  A reading is kept by the program as the text token of the     *)
(* OD600 file (load_OD600 never converts it); a token is modelled as the   *)
(* sequence of its character codes, so that min()/max() over readings is   *)
(* the string order Python 2 uses and float() is a real parse.  A float    *)
(* that holds an OD value is modelled as an integer number of 1e-9 OD      *)
(* units (the repair epsilon 0.000000001 is then 1).  A float that holds a *)
(* time, a logarithm, a slope or a doubling time is an exact fraction      *)
(* [n, d] in lowest terms with d > 0; NaN is the record with d = 0.        *)
(* Rounding of the floating-point operations is not modelled.              *)
(***************************************************************************)
EXTENDS Integers, Sequences, FiniteSets, TLC

VARIABLES
    OD600_WELLS,          \* Analyzer.OD600_WELLS: sequence of Well objects
    timesSecs,            \* Analyzer.timesSecs
    timesHrs,             \* Analyzer.timesHrs
    doublingTimes,        \* Analyzer.doublingTimes (dict label -> list)
    pc,                   \* position of the caller / of the running method
    error,                \* exception that left the running method, or "none"
    n,                    \* loop index of createStartTimepoints / findBase
    startTimepoint,       \* createStartTimepoints: displayed window start
    endTimepoint,         \* createStartTimepoints: displayed window end
    linesRead,            \* loadStartTimepoints: lines consumed so far
    startsFile,           \* lines appended to the index file by createStartTimepoints
    windowSize,           \* findDoublingTimes: parameter
    wellIndex,            \* findDoublingTimes: outer loop index
    doublings,            \* findDoublingTimes: local dict being built
    adjustedMeasurements, \* findDoublingTimes: repaired series of the last well
    returned,             \* value handed back by the last findDoublingTimes call
    calls,                \* number of findDoublingTimes calls so far
    beforeCall,           \* history: doublingTimes when the running call started
    startSets,            \* history: setStartTimepoint calls per well
    baseSets,             \* history: setBase calls per well
    lastInput             \* history: last console command and the well it was about

vars == <<OD600_WELLS, timesSecs, timesHrs, doublingTimes, pc, error, n,
          startTimepoint, endTimepoint, linesRead, startsFile, windowSize,
          wellIndex, doublings, adjustedMeasurements, returned, calls,
          beforeCall, startSets, baseSets, lastInput>>

-----------------------------------------------------------------------------
(* Bounds of the model *)

\* longest reading series of the one-well estimation runs
MaxLen == 4
\* longest reading series of the whole-run model (two wells)
RunLen == 3
\* lines read from the index file
MaxLines == 2

-----------------------------------------------------------------------------
(* Floats as exact fractions *)

Abs(x) == IF x < 0 THEN -x ELSE x

RECURSIVE Gcd(_, _)
Gcd(a, b) == IF b = 0 THEN a ELSE Gcd(b, a % b)

NaN == [n |-> 0, d |-> 0]

IsNaN(q) == q.d = 0

\* a / b as a float; 0.0/0.0 is nan under numpy
Frac(a, b) ==
    IF b = 0 THEN NaN
    ELSE LET g == Gcd(Abs(a), Abs(b))
             s == IF b < 0 THEN -1 ELSE 1
         IN  [n |-> s * (a \div g), d |-> s * (b \div g)]

Zero == [n |-> 0, d |-> 1]

RAdd(p, q) == IF IsNaN(p) \/ IsNaN(q) THEN NaN
              ELSE Frac(p.n * q.d + q.n * p.d, p.d * q.d)

RSub(p, q) == IF IsNaN(p) \/ IsNaN(q) THEN NaN
              ELSE Frac(p.n * q.d - q.n * p.d, p.d * q.d)

RMul(p, q) == IF IsNaN(p) \/ IsNaN(q) THEN NaN
              ELSE Frac(p.n * q.n, p.d * q.d)

RDiv(p, q) == IF IsNaN(p) \/ IsNaN(q) THEN NaN
              ELSE Frac(p.n * q.d, p.d * q.n)

RECURSIVE RSum(_)
RSum(s) == IF s = <<>> THEN Zero ELSE RAdd(Head(s), RSum(Tail(s)))

-----------------------------------------------------------------------------
(* Python list and string primitives *)

MinInt(a, b) == IF a < b THEN a ELSE b

\* s[a:b] for a >= 0 and b >= 0
Slice(s, a, b) ==
    LET hi == MinInt(b, Len(s))
    IN  IF a >= hi THEN <<>> ELSE SubSeq(s, a + 1, hi)

\* a < b for two str values: code-point order, a proper prefix is smaller
RECURSIVE StrLess(_, _)
StrLess(a, b) ==
    IF b = <<>> THEN FALSE
    ELSE IF a = <<>> THEN TRUE
    ELSE IF Head(a) # Head(b) THEN Head(a) < Head(b)
    ELSE StrLess(Tail(a), Tail(b))

\* min(list of str): the first of the smallest elements
RECURSIVE StrMin(_)
StrMin(s) ==
    IF Len(s) = 1 THEN s[1]
    ELSE LET m == StrMin(Tail(s))
         IN  IF StrLess(m, Head(s)) THEN m ELSE Head(s)

\* max(list of str): the first of the largest elements
RECURSIVE StrMax(_)
StrMax(s) ==
    IF Len(s) = 1 THEN s[1]
    ELSE LET m == StrMax(Tail(s))
         IN  IF StrLess(Head(s), m) THEN m ELSE Head(s)

\* list.index(x): 0-based position of the first element equal to x
IndexOf(s, x) == (CHOOSE i \in 1..Len(s) : s[i] = x /\ \A j \in 1..(i - 1) : s[j] # x) - 1

\* digits of a decimal numeral, most significant first, as a number
RECURSIVE Digits(_)
Digits(s) == IF s = <<>> THEN 0 ELSE 10 * Digits(SubSeq(s, 1, Len(s) - 1)) + (s[Len(s)] - 48)

\* float(token) for a token [-]D+.D with an optional trailing newline,
\* in units of 1e-9
Float(tok) ==
    LET t    == IF tok[Len(tok)] = 10 THEN SubSeq(tok, 1, Len(tok) - 1) ELSE tok
        neg  == t[1] = 45
        u    == IF neg THEN Tail(t) ELSE t
        dot  == CHOOSE i \in 1..Len(u) : u[i] = 46
        ip   == Digits(SubSeq(u, 1, dot - 1))
        fp   == Digits(SubSeq(u, dot + 1, Len(u)))
        mag  == (10 * ip + fp) * 100000000
    IN  IF neg THEN -mag ELSE mag

-----------------------------------------------------------------------------
(* class Well *)

\* Well.__init__
Well(well_label, msmnts) ==
    [label |-> well_label, measurements |-> msmnts,
     starting_timepoint |-> -1, base |-> -1000000000]

\* Well.getMeasurements(start, end)
getMeasurements(w, start, end) ==
    IF start > -1 /\ end > -1
    THEN Slice(w.measurements, start, end)
    ELSE w.measurements

\* Well.setStartTimepoint
setStartTimepoint(w, i) == [w EXCEPT !.starting_timepoint = i]

\* Well.setBase: float(base) of a reading token
setBase(w, tok) == [w EXCEPT !.base = Float(tok)]

\* Well.getMeasurementsLessBase
getMeasurementsLessBase(w) ==
    [i \in 1..Len(w.measurements) |-> Float(w.measurements[i]) - w.base]

-----------------------------------------------------------------------------
(* Analyzer.findDoublingTimes: the body of the loop over the wells *)

\* the replacement of a non-positive first value, 0.000000001
Epsilon == 1

\* the repair pass without the replacement of a non-positive first value
RECURSIVE RepairFirstKept(_, _)
RepairFirstKept(currMeasurements, k) ==
    IF k = 1
    THEN <<currMeasurements[1]>>
    ELSE LET adjusted == RepairFirstKept(currMeasurements, k - 1)
         IN  Append(adjusted, IF currMeasurements[k] <= 0 THEN adjusted[k - 1]
                              ELSE currMeasurements[k])

\* the repair pass holding the original previous value, not the repaired one
RECURSIVE RepairHoldsOriginal(_, _)
RepairHoldsOriginal(currMeasurements, k) ==
    IF k = 1
    THEN IF currMeasurements[1] <= 0 THEN <<Epsilon>> ELSE <<currMeasurements[1]>>
    ELSE LET adjusted == RepairHoldsOriginal(currMeasurements, k - 1)
         IN  Append(adjusted, IF currMeasurements[k] <= 0 THEN currMeasurements[k - 1]
                              ELSE currMeasurements[k])

\* the repair pass, lines 465-491: the list adjustedMeasurements once the
\* first k values of currMeasurements (k >= 1) have been handled
RECURSIVE RepairPrefix(_, _)
RepairPrefix(currMeasurements, k) ==
    IF k = 1
    THEN IF currMeasurements[1] <= 0 THEN <<Epsilon>> ELSE <<currMeasurements[1]>>
    ELSE LET adjusted == RepairPrefix(currMeasurements, k - 1)
             possibleAddition == currMeasurements[k]
             toBeAdded == IF possibleAddition <= 0 THEN adjusted[k - 1]
                          ELSE possibleAddition
         IN  Append(adjusted, toBeAdded)

Repair(currMeasurements) == RepairPrefix(currMeasurements, Len(currMeasurements))

\* numpy.log2 of a value given in 1e-9 units, to three decimals: the positive
\* values the model can produce are Epsilon and the multiples of 0.1; of a
\* value <= 0 numpy gives -inf or nan, both modelled as NaN
Log2(v) ==
    IF v <= 0 THEN NaN
    ELSE IF v = Epsilon THEN Frac(-29897, 1000)
    ELSE LET k == v \div 100000000
             milli == <<-3322, -2322, -1737, -1322, -1000, -737, -515, -322,
                        -152, 0, 138, 263, 379, 485, 585, 678>>
         IN  Frac(milli[k], 1000)

LogTransform(adjusted) == [i \in 1..Len(adjusted) |-> Log2(adjusted[i])]

\* slope of scipy.stats.linregress(x, y) for len(x) = len(y):
\* cov(x, y) / var(x), which is 0/0 = nan when all x are equal
LinregressSlope(x, y) ==
    LET cnt == [n |-> Len(x), d |-> 1]
        sx  == RSum(x)
        sy  == RSum(y)
        sxy == RSum([i \in 1..Len(x) |-> RMul(x[i], y[i])])
        sxx == RSum([i \in 1..Len(x) |-> RMul(x[i], x[i])])
    IN  RDiv(RSub(RMul(cnt, sxy), RMul(sx, sy)),
             RSub(RMul(cnt, sxx), RMul(sx, sx)))

\* the slope itself recorded as the estimate
DoublingTimeIsSlope(currSlope) == currSlope

\* lines 507-509
DoublingTime(currSlope) ==
    IF currSlope # Zero THEN RDiv([n |-> 1, d |-> 1], currSlope) ELSE Zero

\* the sliding-window loop with the boundary test <= in place of <
RECURSIVE WindowLoopInclusive(_, _, _, _, _)
WindowLoopInclusive(logMeasurements, hrs, W, startOfWindow, currDoublings) ==
    IF startOfWindow + W <= Len(logMeasurements)
    THEN LET currYVals == Slice(logMeasurements, startOfWindow, startOfWindow + W)
             currXVals == Slice(hrs, startOfWindow, startOfWindow + W)
         IN  IF Len(currXVals) # Len(currYVals)
             THEN [raised |-> TRUE, value |-> <<>>]
             ELSE WindowLoopInclusive(logMeasurements, hrs, W, startOfWindow + 1,
                             Append(currDoublings,
                                    DoublingTime(LinregressSlope(currXVals, currYVals))))
    ELSE [raised |-> FALSE, value |-> currDoublings]

\* the sliding-window loop, lines 498-514, from startOfWindow with the
\* estimates found so far; linregress raises when x and y differ in length
RECURSIVE WindowLoop(_, _, _, _, _)
WindowLoop(logMeasurements, hrs, W, startOfWindow, currDoublings) ==
    IF startOfWindow + W < Len(logMeasurements)
    THEN LET currYVals == Slice(logMeasurements, startOfWindow, startOfWindow + W)
             currXVals == Slice(hrs, startOfWindow, startOfWindow + W)
         IN  IF Len(currXVals) # Len(currYVals)
             THEN [raised |-> TRUE, value |-> <<>>]
             ELSE WindowLoop(logMeasurements, hrs, W, startOfWindow + 1,
                             Append(currDoublings,
                                    DoublingTime(LinregressSlope(currXVals, currYVals))))
    ELSE [raised |-> FALSE, value |-> currDoublings]

\* lines 448-514 for one well: the exception raised, the repaired series and
\* the estimates
WellDoublings(w, hrs, W) ==
    LET currMeasurements == getMeasurementsLessBase(w)
    IN  IF currMeasurements = <<>>
        THEN [raised |-> "IndexError", adjusted |-> <<>>, value |-> <<>>]
        ELSE LET adjusted == Repair(currMeasurements)
                 r == WindowLoop(LogTransform(adjusted), hrs, W, 0, <<>>)
             IN  [raised |-> IF r.raised THEN "ValueError" ELSE "none",
                  adjusted |-> adjusted, value |-> r.value]

\* dict[key] = value where every key holds the one shared list object
DictPutShared(dict, key, value) ==
    [k \in (DOMAIN dict) \cup {key} |-> value]

\* dict[key] = value
DictPut(dict, key, value) ==
    [k \in (DOMAIN dict) \cup {key} |-> IF k = key THEN value ELSE dict[k]]

EmptyDict == <<>>

NoReturn == [has |-> FALSE, value |-> EmptyDict]

enginevars == <<windowSize, wellIndex, doublings, adjustedMeasurements,
                returned, calls, beforeCall, doublingTimes>>
prepvars   == <<n, startTimepoint, endTimepoint, linesRead, startsFile,
                startSets, baseSets, lastInput>>
platevars  == <<OD600_WELLS, timesSecs, timesHrs>>

\* window sizes the caller passes
WindowSizes == 1..MaxLen

\* entry of findDoublingTimes(windowSize), lines 442-445
Enter(W) ==
    /\ windowSize' = W
    /\ wellIndex' = 0
    /\ doublings' = EmptyDict
    /\ adjustedMeasurements' = <<>>
    /\ returned' = NoReturn
    /\ calls' = calls + 1
    /\ beforeCall' = doublingTimes
    /\ pc' = "findDoublingTimes.loop"
    /\ UNCHANGED <<doublingTimes, error, platevars, prepvars>>

\* the window size run() passes, line 642
DOUBLING_WINDOW_SIZE == 40

\* run(), line 656: the call after findBase
FindDoublingTimes ==
    /\ pc = "findDoublingTimes"
    /\ Enter(DOUBLING_WINDOW_SIZE)

\* a call by another caller, with any window size
FindDoublingTimesWith ==
    /\ pc = "findDoublingTimes"
    /\ \E W \in WindowSizes : Enter(W)

\* a second call on the same Analyzer, with any window size
FindDoublingTimesAgain ==
    /\ pc = "findDoublingTimes.returned"
    /\ calls = 1
    /\ \E W \in WindowSizes : Enter(W)

\* the loop body storing each well's estimates into self.doublingTimes at
\* once instead of into the local dict
FindDoublingTimesWellStoresEarly ==
    /\ pc = "findDoublingTimes.loop"
    /\ wellIndex < Len(OD600_WELLS)
    /\ LET currWell == OD600_WELLS[wellIndex + 1]
           r == WellDoublings(currWell, timesHrs, windowSize)
           done == DictPut(doublings, currWell.label, r.value)
       IN  /\ adjustedMeasurements' = r.adjusted
           /\ IF r.raised # "none"
              THEN /\ error' = r.raised
                   /\ pc' = "findDoublingTimes.raised"
                   /\ UNCHANGED <<doublings, wellIndex, doublingTimes, returned>>
              ELSE /\ doublings' = done
                   /\ doublingTimes' = done
                   /\ wellIndex' = wellIndex + 1
                   /\ error' = error
                   /\ IF wellIndex + 1 = Len(OD600_WELLS)
                      THEN /\ returned' = [has |-> TRUE, value |-> done]
                           /\ pc' = "findDoublingTimes.returned"
                      ELSE UNCHANGED <<returned, pc>>
    /\ UNCHANGED <<windowSize, calls, beforeCall, platevars, prepvars>>

\* one iteration of the loop over the wells, lines 446-524; after the last
\* well the method stores and returns the dict, lines 526-527
FindDoublingTimesWell ==
    /\ pc = "findDoublingTimes.loop"
    /\ wellIndex < Len(OD600_WELLS)
    /\ LET currWell == OD600_WELLS[wellIndex + 1]
           r == WellDoublings(currWell, timesHrs, windowSize)
           done == DictPut(doublings, currWell.label, r.value)
       IN  /\ adjustedMeasurements' = r.adjusted
           /\ IF r.raised # "none"
              THEN /\ error' = r.raised
                   /\ pc' = "findDoublingTimes.raised"
                   /\ UNCHANGED <<doublings, wellIndex, doublingTimes, returned>>
              ELSE /\ doublings' = done
                   /\ wellIndex' = wellIndex + 1
                   /\ error' = error
                   /\ IF wellIndex + 1 = Len(OD600_WELLS)
                      THEN /\ doublingTimes' = done
                           /\ returned' = [has |-> TRUE, value |-> done]
                           /\ pc' = "findDoublingTimes.returned"
                      ELSE UNCHANGED <<doublingTimes, returned, pc>>
    /\ UNCHANGED <<windowSize, calls, beforeCall, platevars, prepvars>>

\* saveToFile, lines 540-607: writes the report; the text is not kept
SaveToFile ==
    /\ pc = "findDoublingTimes.returned"
    /\ pc' = "done"
    /\ UNCHANGED <<error, platevars, prepvars, enginevars>>

-----------------------------------------------------------------------------
(* Analyzer.loadStartTimepoints *)

\* the inner loop without the comparison of the labels: every well is set
AssignIndexAll(wells, counts, label, i) ==
    [wells  |-> [k \in 1..Len(wells) |-> setStartTimepoint(wells[k], i)],
     counts |-> [k \in 1..Len(wells) |-> counts[k] + 1]]

\* the inner loop, lines 278-286: setStartTimepoint(i) on the first well
\* with that label, if any; counts are the setStartTimepoint calls per well
AssignIndex(wells, counts, label, i) ==
    IF \E k \in 1..Len(wells) : wells[k].label = label
    THEN LET k == CHOOSE k \in 1..Len(wells) :
                     wells[k].label = label /\ \A j \in 1..(k - 1) : wells[j].label # label
         IN  [wells  |-> [wells EXCEPT ![k] = setStartTimepoint(wells[k], i)],
              counts |-> [counts EXCEPT ![k] = @ + 1]]
    ELSE [wells |-> wells, counts |-> counts]

\* labels a line of the index file can name: the wells and a label of no well
FileLabels == {"A1", "A2", "H12"}

\* integers a file line or the operator can give
IndexInputs == 0..RunLen

\* open(fileName) fails: lines 290-292
LoadOpenFails ==
    /\ pc = "loadStartTimepoints"
    /\ linesRead = 0
    /\ pc' = "createStartTimepoints"
    /\ UNCHANGED <<error, platevars, prepvars, enginevars>>

\* one line "label<TAB>index" of the file, lines 272-286
LoadLine ==
    /\ pc = "loadStartTimepoints"
    /\ linesRead < MaxLines
    /\ \E currWellName \in FileLabels, currIndex \in IndexInputs :
          /\ OD600_WELLS' = AssignIndex(OD600_WELLS, startSets, currWellName, currIndex).wells
          /\ startSets' = AssignIndex(OD600_WELLS, startSets, currWellName, currIndex).counts
    /\ linesRead' = linesRead + 1
    /\ UNCHANGED <<pc, error, timesSecs, timesHrs, n, startTimepoint, endTimepoint,
                   startsFile, baseSets, lastInput, enginevars>>

\* a line whose second field is no integer: int() raises, line 275
LoadBadLine ==
    /\ pc = "loadStartTimepoints"
    /\ linesRead < MaxLines
    /\ linesRead' = linesRead + 1
    /\ error' = "ValueError"
    /\ pc' = "loadStartTimepoints.raised"
    /\ UNCHANGED <<platevars, n, startTimepoint, endTimepoint, startsFile,
                   startSets, baseSets, lastInput, enginevars>>

\* end of the file, line 288; run() goes on to findBase, line 653
LoadEnd ==
    /\ pc = "loadStartTimepoints"
    /\ pc' = "findBase"
    /\ UNCHANGED <<error, platevars, prepvars, enginevars>>

-----------------------------------------------------------------------------
(* Analyzer.createStartTimepoints *)

\* the lines the second loop appends to the file, lines 402-411
SavedLines(wells) ==
    [k \in 1..Len(wells) |-> <<wells[k].label, wells[k].starting_timepoint>>]

\* the window createStartTimepoints shows first ends at 100, line 312
DefaultEnd == 100

\* len(range(start, end))
RangeLen(start, end) == IF end > start THEN end - start ELSE 0

\* one pass of the loop over the wells, lines 318-394, with the console
\* command cmd and the integers a and b typed after it; when the loop ends
\* the indices are appended to the file, lines 399-411
CreateStep(cmd, a, b) ==
    /\ pc = "createStartTimepoints"
    /\ n < Len(OD600_WELLS)
    /\ LET currWell == OD600_WELLS[n + 1]
           currODVals == getMeasurements(currWell, startTimepoint, endTimepoint)
       IN  IF currODVals = <<>>
           THEN \* max() of an empty list, line 328
                /\ error' = "ValueError"
                /\ pc' = "createStartTimepoints.raised"
                /\ UNCHANGED <<platevars, prepvars>>
           ELSE IF Len(currODVals) > RangeLen(startTimepoint, endTimepoint)
           THEN \* currTimepoints[i] past the end of the range, line 342
                /\ error' = "IndexError"
                /\ pc' = "createStartTimepoints.raised"
                /\ UNCHANGED <<platevars, prepvars>>
           ELSE LET maxOD == StrMax(currODVals)
                    maxTimepoint == IndexOf(currODVals, maxOD)
                    wells == CASE cmd = "y" ->
                                    [OD600_WELLS EXCEPT
                                       ![n + 1] = setStartTimepoint(currWell, maxTimepoint + 1)]
                               [] cmd = "n" ->
                                    [OD600_WELLS EXCEPT
                                       ![n + 1] = setStartTimepoint(currWell, a)]
                               [] OTHER -> OD600_WELLS
                    next == CASE cmd = "exit" -> Len(OD600_WELLS) + 1
                              [] cmd = "resize" -> n
                              [] OTHER -> n + 1
                IN  /\ OD600_WELLS' = wells
                    /\ startSets' = IF cmd \in {"y", "n"}
                                    THEN [startSets EXCEPT ![n + 1] = @ + 1]
                                    ELSE startSets
                    /\ lastInput' = <<cmd, n + 1>>
                    /\ IF next < Len(OD600_WELLS)
                       THEN /\ n' = next
                            /\ startTimepoint' = IF cmd = "resize" THEN a ELSE startTimepoint
                            /\ endTimepoint' = IF cmd = "resize" THEN b ELSE endTimepoint
                            /\ UNCHANGED <<startsFile, pc>>
                       ELSE /\ n' = 0
                            /\ startTimepoint' = 0
                            /\ endTimepoint' = DefaultEnd
                            /\ startsFile' = startsFile \o SavedLines(wells)
                            /\ pc' = "findBase"
                    /\ UNCHANGED <<error, timesSecs, timesHrs, linesRead, baseSets>>
    /\ UNCHANGED enginevars

CreateExit == CreateStep("exit", 0, 0)

CreateAccept == CreateStep("y", 0, 0)

CreateManual == \E newTimepoint \in IndexInputs : CreateStep("n", newTimepoint, 0)

\* window ends the operator can give: inside the series, and the first one
ResizeEnds == {RunLen - 1, DefaultEnd}

CreateResize == \E a \in IndexInputs, b \in ResizeEnds : CreateStep("resize", a, b)

-----------------------------------------------------------------------------
(* Analyzer.findBase *)

\* the number of readings the base is taken over, line 427
BaseWindow == 10

\* one pass of the loop over the wells, lines 423-433; after the last well
\* run() goes on to findDoublingTimes, line 656
FindBaseWell ==
    /\ pc = "findBase"
    /\ n < Len(OD600_WELLS)
    /\ LET currWell == OD600_WELLS[n + 1]
           currStartTimepoint == currWell.starting_timepoint
           currEndTimepoint == currStartTimepoint + BaseWindow
           currWellVals == getMeasurements(currWell, currStartTimepoint, currEndTimepoint)
       IN  IF currWellVals = <<>>
           THEN \* min() of an empty list, line 431
                /\ error' = "ValueError"
                /\ pc' = "findBase.raised"
                /\ UNCHANGED <<OD600_WELLS, baseSets, n>>
           ELSE /\ OD600_WELLS' = [OD600_WELLS EXCEPT
                                     ![n + 1] = setBase(currWell, StrMin(currWellVals))]
                /\ baseSets' = [baseSets EXCEPT ![n + 1] = @ + 1]
                /\ error' = error
                /\ IF n + 1 < Len(OD600_WELLS)
                   THEN n' = n + 1 /\ pc' = pc
                   ELSE n' = 0 /\ pc' = "findDoublingTimes"
    /\ lastInput' = <<"none", 0>>
    /\ UNCHANGED <<timesSecs, timesHrs, startTimepoint, endTimepoint, linesRead,
                   startsFile, startSets, enginevars>>

-----------------------------------------------------------------------------
(* Input of the estimation runs: one well with any base, any time axis *)

\* reading tokens "0.1", "0.2", "0.4"
Tokens == { <<48, 46, 49>>, <<48, 46, 50>>, <<48, 46, 52>> }

\* token lists of a line of the OD600 file of length 0..m; split("\t")
\* leaves the newline on the last token
Lines(toks, m) ==
    { [i \in 1..Len(s) |-> IF i = Len(s) THEN Append(s[i], 10) ELSE s[i]] :
        s \in UNION { [1..k -> toks] : k \in 0..m } }

\* time axes in seconds: k timepoints from 0, the sampling steps cycling
\* through a pattern of 1800 s and 3600 s steps
RECURSIVE Axis(_, _)
Axis(pattern, k) ==
    IF k = 0 THEN <<>>
    ELSE IF k = 1 THEN <<0>>
    ELSE LET c == Axis(pattern, k - 1)
         IN  Append(c, c[k - 1] + pattern[((k - 2) % Len(pattern)) + 1])

StepPatterns == { <<1800>>, <<3600>>, <<1800, 3600>> }

TimeAxes(lo, hi) == { Axis(pt, k) : pt \in StepPatterns, k \in lo..hi }

\* load_OD600, lines 169-176
Hours(secs) == [i \in 1..Len(secs) |-> Frac(secs[i], 3600)]

\* baselines of the estimation runs: 0.0 and 0.2
EngineBases == {0, 200000000}

InitCommon ==
    /\ doublingTimes = EmptyDict
    /\ error = "none"
    /\ n = 0
    /\ startTimepoint = 0
    /\ endTimepoint = DefaultEnd
    /\ linesRead = 0
    /\ startsFile = <<>>
    /\ windowSize = 0
    /\ wellIndex = 0
    /\ doublings = EmptyDict
    /\ adjustedMeasurements = <<>>
    /\ returned = NoReturn
    /\ calls = 0
    /\ beforeCall = EmptyDict
    /\ lastInput = <<"none", 0>>

InitEngine ==
    /\ InitCommon
    /\ \E m \in Lines(Tokens, MaxLen), b \in EngineBases :
          OD600_WELLS = << [Well("A1", m) EXCEPT !.starting_timepoint = 0, !.base = b] >>
    /\ timesSecs \in TimeAxes(MaxLen - 2, MaxLen)
    /\ timesHrs = Hours(timesSecs)
    /\ startSets = <<1>>
    /\ baseSets = <<1>>
    /\ pc = "findDoublingTimes"

NextEngine ==
    \/ FindDoublingTimesWith
    \/ FindDoublingTimesWell

SpecEngine == InitEngine /\ [][NextEngine]_vars

-----------------------------------------------------------------------------
(* Input of the whole run: two wells A1 and A2 *)

\* reading tokens "-0.2", "-0.1"
RunTokens == { <<45, 48, 46, 50>>, <<45, 48, 46, 49>> }

\* Analyzer.__init__ (load_OD600), then run() at line 650
Init ==
    /\ InitCommon
    /\ \E m1 \in Lines(RunTokens, RunLen), m2 \in Lines(RunTokens, RunLen) :
          OD600_WELLS = << Well("A1", m1), Well("A2", m2) >>
    /\ timesSecs = Axis(<<1800>>, RunLen)
    /\ timesHrs = Hours(timesSecs)
    /\ startSets = <<0, 0>>
    /\ baseSets = <<0, 0>>
    /\ pc = "loadStartTimepoints"

Next ==
    \/ LoadOpenFails
    \/ LoadLine
    \/ LoadBadLine
    \/ LoadEnd
    \/ CreateExit
    \/ CreateAccept
    \/ CreateManual
    \/ CreateResize
    \/ FindBaseWell
    \/ FindDoublingTimes
    \/ FindDoublingTimesWell
    \/ SaveToFile

Spec == Init /\ [][Next]_vars

-----------------------------------------------------------------------------
(* Input of the two-well estimation runs: wells A1 and A2 after findBase,  *)
(* both with base 0.2, a time axis as long as the longest series or two    *)
(* shorter, and up to two calls with any window size                       *)

\* reading tokens "0.1", "0.4"
PlateTokens == { <<48, 46, 49>>, <<48, 46, 52>> }

InitPlate ==
    /\ InitCommon
    /\ \E m1 \in Lines(PlateTokens, RunLen), m2 \in Lines(PlateTokens, RunLen) :
          OD600_WELLS =
             << [Well("A1", m1) EXCEPT !.starting_timepoint = 0, !.base = 200000000],
                [Well("A2", m2) EXCEPT !.starting_timepoint = 0, !.base = 200000000] >>
    /\ timesSecs \in { Axis(<<1800>>, k) : k \in {RunLen - 2, RunLen} }
    /\ timesHrs = Hours(timesSecs)
    /\ startSets = <<1, 1>>
    /\ baseSets = <<1, 1>>
    /\ pc = "findDoublingTimes"

NextPlate ==
    \/ FindDoublingTimesWith
    \/ FindDoublingTimesAgain
    \/ FindDoublingTimesWell

SpecPlate == InitPlate /\ [][NextPlate]_vars

-----------------------------------------------------------------------------
(* The well whose repaired series is in adjustedMeasurements *)

InFindDoublingTimes ==
    pc \in {"findDoublingTimes.loop", "findDoublingTimes.returned",
            "findDoublingTimes.raised", "done"}

\* 1-based position of the last well the loop body ran on, 0 if none
LastWell ==
    IF ~InFindDoublingTimes THEN 0
    ELSE IF pc = "findDoublingTimes.raised" THEN wellIndex + 1
    ELSE wellIndex

\* the repair pass has run on a non-empty series
Repaired ==
    /\ LastWell >= 1
    /\ OD600_WELLS[LastWell].measurements # <<>>

\* the baseline-subtracted series the repair pass was given
LessBase == getMeasurementsLessBase(OD600_WELLS[LastWell])

\* the loop body has just completed on the last well
Estimated ==
    /\ pc \in {"findDoublingTimes.loop", "findDoublingTimes.returned"}
    /\ wellIndex >= 1

LastLabel == OD600_WELLS[LastWell].label

-----------------------------------------------------------------------------
(* C1: the repaired series of a non-empty baseline-subtracted series has   *)
(* the length of that series and only values strictly greater than 0.      *)
C1_RepairedPositive ==
    Repaired =>
        /\ Len(adjustedMeasurements) = Len(LessBase)
        /\ \A i \in 1..Len(adjustedMeasurements) : adjustedMeasurements[i] > 0

\* a series with a negative, a zero and a positive value has been repaired
C1_Witness ==
    /\ Repaired
    /\ \E i, j, k \in 1..Len(LessBase) :
          LessBase[i] < 0 /\ LessBase[j] = 0 /\ LessBase[k] > 0
    /\ C1_RepairedPositive

(* C2: the repaired series follows the reference rule: out[0] is 1e-9 if   *)
(* in[0] <= 0, else in[0]; out[i] is out[i-1] if in[i] <= 0, else in[i].   *)
(* So every position holds the last positive input value at or before it,  *)
(* or 1e-9 when there is none, and a positive series is unchanged.         *)
C2_RepairRule ==
    Repaired =>
        LET in  == LessBase
            out == adjustedMeasurements
            LastPositive(i) ==
                IF \E j \in 1..i : in[j] > 0
                THEN in[CHOOSE j \in 1..i :
                          in[j] > 0 /\ \A h \in (j + 1)..i : in[h] <= 0]
                ELSE 1
        IN  /\ Len(out) = Len(in)
            /\ out[1] = (IF in[1] <= 0 THEN 1 ELSE in[1])
            /\ \A i \in 2..Len(in) :
                  out[i] = (IF in[i] <= 0 THEN out[i - 1] ELSE in[i])
            /\ \A i \in 1..Len(in) : out[i] = LastPositive(i)
            /\ (\A i \in 1..Len(in) : in[i] > 0) => out = in

\* a positive value followed by a run of two non-positive values, both
\* repaired to that positive value
C2_Witness ==
    /\ Repaired
    /\ Len(LessBase) >= 3
    /\ LessBase[1] > 0 /\ LessBase[2] <= 0 /\ LessBase[3] <= 0
    /\ adjustedMeasurements[2] = LessBase[1]
    /\ adjustedMeasurements[3] = LessBase[1]

-----------------------------------------------------------------------------
(* Least squares stated by its normal equation: for the window of W points *)
(* starting at k (0-based) of the series y against the times x,            *)
(*    slope * (W * Sxx - Sx * Sx) = W * Sxy - Sx * Sy                      *)

WinX(k) == [i \in 1..windowSize |-> timesHrs[k + i]]
WinY(k) == [i \in 1..windowSize |-> Log2(adjustedMeasurements[k + i])]

Whole(i) == [n |-> i, d |-> 1]

CoMoment(x, y) ==
    RSub(RMul(Whole(Len(x)), RSum([i \in 1..Len(x) |-> RMul(x[i], y[i])])),
         RMul(RSum(x), RSum(y)))

\* e is the estimate the window (x, y) must give
IsEstimate(e, x, y) ==
    LET a == CoMoment(x, y)
        b == CoMoment(x, x)
    IN  IF b = Zero THEN IsNaN(e)
        ELSE IF a = Zero THEN e = Zero
        ELSE ~IsNaN(e) /\ RMul(e, a) = b

\* all points of the window lie on one line of slope m
Linear(x, y, m) ==
    \A i \in 1..(Len(x) - 1) : RSub(y[i + 1], y[i]) = RMul(m, RSub(x[i + 1], x[i]))

\* slope of the line through the first two points of the window
FirstSlope(x, y) == RDiv(RSub(y[2], y[1]), RSub(x[2], x[1]))

(* C3: a well of series length L >= 1 gets exactly max(0, L - W) estimates,*)
(* the i-th being that of the window starting at i - 1; with W >= L it gets*)
(* none and nothing is raised (nothing is raised either while the time axis*)
(* is at most one shorter than the series).                                *)
C3_WindowCount ==
    /\ Estimated /\ Repaired =>
          LET L == Len(OD600_WELLS[LastWell].measurements)
              est == doublings[LastLabel]
          IN  /\ Len(est) = (IF L - windowSize > 0 THEN L - windowSize ELSE 0)
              /\ \A i \in 1..Len(est) : IsEstimate(est[i], WinX(i - 1), WinY(i - 1))
    /\ pc = "findDoublingTimes.raised" /\ Repaired =>
          /\ windowSize < Len(OD600_WELLS[LastWell].measurements)
          /\ Len(timesHrs) < Len(OD600_WELLS[LastWell].measurements) - 1

\* a well with L - W >= 2 estimates
C3_Witness ==
    /\ Estimated /\ Repaired
    /\ Len(OD600_WELLS[LastWell].measurements) - windowSize >= 2
    /\ Len(doublings[LastLabel]) = Len(OD600_WELLS[LastWell].measurements) - windowSize

\* a window at least as long as the series: no estimate, nothing raised
C3_WitnessEmpty ==
    /\ Estimated /\ Repaired
    /\ windowSize >= Len(OD600_WELLS[LastWell].measurements)
    /\ doublings[LastLabel] = <<>>

(* C4 as stated: every estimate is 1/slope for a non-zero slope and 0 for a*)
(* zero slope, a window on a line of slope m # 0 gives 1/m, and a flat     *)
(* window gives 0.                                                         *)
C4_AsStated ==
    Estimated /\ Repaired =>
        \A i \in 1..Len(doublings[LastLabel]) :
            LET x == WinX(i - 1)
                y == WinY(i - 1)
                e == doublings[LastLabel][i]
            IN  /\ CoMoment(x, x) # Zero /\ CoMoment(x, y) # Zero =>
                      RMul(e, CoMoment(x, y)) = CoMoment(x, x)
                /\ CoMoment(x, x) # Zero /\ CoMoment(x, y) = Zero => e = Zero
                /\ Linear(x, y, Zero) => e = Zero
                /\ windowSize >= 2 =>
                      LET m == FirstSlope(x, y)
                      IN  Linear(x, y, m) /\ m # Zero => e = RDiv(Whole(1), m)

(* C4, amended: for a window of at least two points whose times are not all*)
(* equal, the estimate is 1/slope for a non-zero least-squares slope and 0 *)
(* for a zero slope; so a window on a line of slope m # 0 gives 1/m and a  *)
(* flat window gives 0.  A window of one point gives NaN.                  *)
C4_Estimate ==
    Estimated /\ Repaired =>
        \A i \in 1..Len(doublings[LastLabel]) :
            LET x == WinX(i - 1)
                y == WinY(i - 1)
                e == doublings[LastLabel][i]
            IN  /\ IsEstimate(e, x, y)
                /\ windowSize = 1 => IsNaN(e)
                /\ windowSize >= 2 =>
                      LET m == FirstSlope(x, y)
                      IN  /\ Linear(x, y, m) /\ m # Zero => e = RDiv(Whole(1), m)
                          /\ Linear(x, y, m) /\ m = Zero => e = Zero

\* a window of three points on a line of non-zero slope and its estimate 1/m
C4_Witness ==
    /\ Estimated /\ Repaired
    /\ windowSize = 3
    /\ Len(doublings[LastLabel]) >= 1
    /\ FirstSlope(WinX(0), WinY(0)) # Zero
    /\ Linear(WinX(0), WinY(0), FirstSlope(WinX(0), WinY(0)))
    /\ doublings[LastLabel][1] = RDiv(Whole(1), FirstSlope(WinX(0), WinY(0)))

\* a flat window of two points and its estimate 0
C4_WitnessFlat ==
    /\ Estimated /\ Repaired
    /\ windowSize = 2
    /\ Len(doublings[LastLabel]) >= 1
    /\ Linear(WinX(0), WinY(0), Zero)
    /\ doublings[LastLabel][1] = Zero

-----------------------------------------------------------------------------
(* Preprocessing *)

WellIds == 1..Len(OD600_WELLS)

\* the smallest of a non-empty set of integers
Least(S) == CHOOSE x \in S : \A y \in S : x <= y

\* the numerical minimum of readings[s : s+10], in 1e-9 units
NumericWindowMin(w) ==
    LET s == w.starting_timepoint
        last == MinInt(s + 10, Len(w.measurements))
    IN  Least({ Float(w.measurements[i]) : i \in (s + 1)..last })

\* findBase has returned
FindBaseReturned ==
    pc \in {"findDoublingTimes", "findDoublingTimes.loop",
            "findDoublingTimes.returned", "findDoublingTimes.raised", "done"}

\* the indices came from createStartTimepoints
Interactive ==
    \/ pc \in {"createStartTimepoints", "createStartTimepoints.raised"}
    \/ startsFile # <<>>

(* C5 as stated: a well with a cutoff index s, 0 <= s < length, that       *)
(* findBase has given a base has the numerical minimum of                  *)
(* readings[s : s+10] as its base.                                         *)
C5_AsStated ==
    \A k \in WellIds :
        LET w == OD600_WELLS[k]
        IN  /\ baseSets[k] >= 1
            /\ 0 <= w.starting_timepoint
            /\ w.starting_timepoint < Len(w.measurements)
            => w.base = NumericWindowMin(w)

(* C6 as stated: a well whose cutoff index is still -1 when findBase runs  *)
(* is not given a base.                                                    *)
C6_AsStated ==
    \A k \in WellIds :
        OD600_WELLS[k].starting_timepoint = -1 => baseSets[k] = 0

(* C7 as stated: a cutoff index that is no longer -1 lies in [0, length).  *)
C7_AsStated ==
    \A k \in WellIds :
        LET w == OD600_WELLS[k]
        IN  w.starting_timepoint # -1 =>
               /\ 0 <= w.starting_timepoint
               /\ w.starting_timepoint < Len(w.measurements)

C8_WitnessFile ==
    /\ pc = "done"
    /\ ~Interactive
    /\ startSets = <<2, 0>>
    /\ baseSets = <<1, 1>>

-----------------------------------------------------------------------------
(* The result of findDoublingTimes, stated from the readings *)

\* the repaired series of a well: every position holds the last positive
\* baseline-subtracted value at or before it, or 1e-9 when there is none
HeldSeries(w) ==
    [i \in 1..Len(w.measurements) |->
        IF \E j \in 1..i : Float(w.measurements[j]) - w.base > 0
        THEN LET j == CHOOSE j \in 1..i :
                         /\ Float(w.measurements[j]) - w.base > 0
                         /\ \A h \in (j + 1)..i : Float(w.measurements[h]) - w.base <= 0
             IN  Float(w.measurements[j]) - w.base
        ELSE 1]

\* est is the estimate sequence of well w for the window size W
IsWellResult(est, w, W) ==
    LET L == Len(w.measurements)
        held == HeldSeries(w)
    IN  /\ Len(est) = (IF L - W > 0 THEN L - W ELSE 0)
        /\ \A i \in 1..Len(est) :
              IsEstimate(est[i],
                         [j \in 1..W |-> timesHrs[i - 1 + j]],
                         [j \in 1..W |-> Log2(held[i - 1 + j])])

\* the estimation of well w fails: it has no reading, or one of its windows
\* reaches past the end of the time axis
Fails(w, W) ==
    \/ w.measurements = <<>>
    \/ /\ Len(w.measurements) > W
       /\ Len(w.measurements) - 1 > Len(timesHrs)

(* C9: the dict findDoublingTimes returns and stores has exactly the labels*)
(* of the wells as keys, and the entry of a label is the estimate sequence *)
(* of the well with that label, from that well's readings and base.        *)
C9_ResultPerWell ==
    returned.has =>
        /\ doublingTimes = returned.value
        /\ DOMAIN returned.value = { OD600_WELLS[k].label : k \in WellIds }
        /\ \A k \in WellIds :
              IsWellResult(returned.value[OD600_WELLS[k].label], OD600_WELLS[k],
                           windowSize)

\* a returned dict whose two entries are non-empty and differ
C9_Witness ==
    /\ returned.has
    /\ returned.value["A1"] # <<>>
    /\ returned.value["A2"] # <<>>
    /\ returned.value["A1"] # returned.value["A2"]
    /\ IsWellResult(returned.value["A1"], OD600_WELLS[1], windowSize)
    /\ IsWellResult(returned.value["A2"], OD600_WELLS[2], windowSize)

(* C10: when the estimation of a well fails, findDoublingTimes raises:     *)
(* nothing is returned and self.doublingTimes is what it was before the    *)
(* call; a call that returns has no failing well and an entry per well.    *)
C10_FailureSurfaced ==
    /\ pc = "findDoublingTimes.raised" =>
          /\ error # "none"
          /\ ~returned.has
          /\ doublingTimes = beforeCall
          /\ Fails(OD600_WELLS[wellIndex + 1], windowSize)
    /\ pc \in {"findDoublingTimes.loop", "findDoublingTimes.raised"} =>
          /\ ~returned.has
          /\ doublingTimes = beforeCall
          /\ \A k \in 1..wellIndex : ~Fails(OD600_WELLS[k], windowSize)
    /\ returned.has =>
          /\ \A k \in WellIds :
                /\ ~Fails(OD600_WELLS[k], windowSize)
                /\ OD600_WELLS[k].label \in DOMAIN returned.value

\* the second call fails at A2 after A1 went through: nothing is returned,
\* and the stored dict is still the non-empty one of the first call
C10_Witness ==
    /\ pc = "findDoublingTimes.raised"
    /\ calls = 2
    /\ wellIndex = 1
    /\ "A1" \in DOMAIN doublings
    /\ beforeCall # EmptyDict
    /\ doublingTimes = beforeCall
    /\ ~returned.has

-----------------------------------------------------------------------------
(* The suggestion of createStartTimepoints *)

\* the operator has just typed 'y' for well k and the loop goes on, so that
\* the displayed window is still the one the suggestion was made for
AcceptedAt(k) ==
    /\ pc = "createStartTimepoints"
    /\ lastInput = <<"y", k>>

\* the readings shown for well k, lines 323-324
Shown(k) == getMeasurements(OD600_WELLS[k], startTimepoint, endTimepoint)

\* the timepoint printed with the MAX marker for well k, lines 339-340:
\* currTimepoints[maxTimepoint], the absolute index of the largest reading
\* of the window
MarkedTimepoint(k) == startTimepoint + IndexOf(Shown(k), StrMax(Shown(k)))

(* C11 as stated: after 'y' the cutoff index stored for the well is the    *)
(* absolute timepoint printed with the MAX marker, plus one, whatever the  *)
(* displayed window is.                                                    *)
C11_AsStated ==
    \A k \in WellIds :
        AcceptedAt(k) =>
            OD600_WELLS[k].starting_timepoint = MarkedTimepoint(k) + 1

\* what line 376 stores: the position of the largest reading inside the
\* window, plus one, which is the marked timepoint plus one only for a
\* window that starts at 0
C11_StoredIsRelative ==
    \A k \in WellIds :
        AcceptedAt(k) =>
            OD600_WELLS[k].starting_timepoint
               = MarkedTimepoint(k) + 1 - startTimepoint

\* 'y' after a 'resize' to a window that starts past 0
C11_AcceptedAfterResize ==
    \E k \in WellIds : AcceptedAt(k) /\ startTimepoint > 0

====
